---- MODULE Spec2Model ----
(***************************************************************************)
(* Model of homework.py: a bot that polls the Practicum homework API and   *)
(* forwards status changes and failures to a Telegram chat.                *)
(*                                                                         *)
(* The Russian literals of the source are transliterated to ASCII; every   *)
(* distinct literal of the source is a distinct string here.               *)
(***************************************************************************)
EXTENDS Integers, Sequences, FiniteSets, TLC

(***************************************************************************)
(* Bounds of the model.                                                    *)
(***************************************************************************)
\* largest timestamp the clock or the server reports
MaxDate == 2
\* longest `homeworks` list the server returns
MaxItems == 2

(***************************************************************************)
(* JSON values as Python sees them after response.json().                  *)
(***************************************************************************)
JInt(n) == [type |-> "int", val |-> n]
JStr(s) == [type |-> "str", str |-> s]
JList(items) == [type |-> "list", items |-> items]
JDict(fields) == [type |-> "dict", fields |-> fields]

\* `key in d` for a dict d (fields is a record whose domain is the key set)
HasKey(d, key) == d.fields # <<>> /\ key \in DOMAIN d.fields

(***************************************************************************)
(* Exceptions: the class and the text str(error) gives.                    *)
(***************************************************************************)
Raise(cls, text) == [raised |-> TRUE, cls |-> cls, text |-> text]
Return(value) == [raised |-> FALSE, value |-> value]

(***************************************************************************)
(* Module constants, homework.py:18-31.                                    *)
(***************************************************************************)
RETRY_PERIOD == 600

HOMEWORK_VERDICTS ==
    [approved |-> "Rabota proverena: revyueru vsyo ponravilos. Ura!",
     reviewing |-> "Rabota vzyata na proverku revyuerom.",
     rejected |-> "Rabota proverena: u revyuera est zamechaniya."]

(***************************************************************************)
(* check_tokens, homework.py:34-47: raises at the first empty variable,    *)
(* in the order of the dict literal.                                       *)
(***************************************************************************)
MissingVariable(name) ==
    "Otsutstvuet obyazatelnaya peremennaya okruzheniya: '" \o name \o "'."

\* a check that forgets the last variable of the dict
check_tokens_two(practicum_token, telegram_token, telegram_chat_id) ==
    IF practicum_token = ""
    THEN Raise("EnvironmentVariableDoesNotExist",
               MissingVariable("PRACTICUM_TOKEN"))
    ELSE IF telegram_token = ""
    THEN Raise("EnvironmentVariableDoesNotExist",
               MissingVariable("TELEGRAM_TOKEN"))
    ELSE Return("None")

check_tokens(practicum_token, telegram_token, telegram_chat_id) ==
    IF practicum_token = ""
    THEN Raise("EnvironmentVariableDoesNotExist",
               MissingVariable("PRACTICUM_TOKEN"))
    ELSE IF telegram_token = ""
    THEN Raise("EnvironmentVariableDoesNotExist",
               MissingVariable("TELEGRAM_TOKEN"))
    ELSE IF telegram_chat_id = ""
    THEN Raise("EnvironmentVariableDoesNotExist",
               MissingVariable("TELEGRAM_CHAT_ID"))
    ELSE Return("None")

(***************************************************************************)
(* send_message, homework.py:50-56: one call of bot.send_message; a        *)
(* failed delivery is logged and swallowed, so the call always returns.    *)
(* `delivered` is the outcome of the Telegram call.  The result carries    *)
(* the invocation made on the messaging API.                               *)
(***************************************************************************)
\* a send_message without the try statement
send_message_raising(message, delivered) ==
    [raised |-> ~delivered,
     text |-> IF delivered THEN "" ELSE "Telegram is unreachable",
     calls |-> <<[text |-> message, ok |-> delivered]>>]

send_message(message, delivered) ==
    [raised |-> FALSE, text |-> "",
     calls |-> <<[text |-> message, ok |-> delivered]>>]

(***************************************************************************)
(* get_api_answer, homework.py:59-78.  `net` is what the network does     *)
(* with the request: a transport error, or an HTTP response with a status  *)
(* code and a body that does or does not parse as JSON.                    *)
(***************************************************************************)
get_api_answer(timestamp, net) ==
    IF net.kind = "transport"
    THEN Raise("EndpointDisable", "Neuspeshnyy zapros: '" \o net.cause \o "'.")
    ELSE IF net.status_code # 200
    THEN Raise("EndpointDisable",
               "Endpoint ne dostupen, HTTPStatus: " \o ToString(net.status_code))
    ELSE IF net.body.parses
    THEN Return(net.body.value)
    \* line 77 builds requests.JSONDecodeError from one positional argument:
    \* a requests whose JSONDecodeError delegates to json.JSONDecodeError
    \* (msg, doc, pos) fails in the constructor with a TypeError instead
    ELSE IF net.body.ctor_ok
    THEN Raise("JSONDecodeError",
               "Oshibka preobrazovaniya v JSON: " \o net.body.cause)
    ELSE Raise("TypeError",
               "__init__() missing 2 required positional arguments: 'doc' and 'pos'")

(***************************************************************************)
(* check_response, homework.py:81-92.                                      *)
(***************************************************************************)
\* a check that takes an empty list for an error
check_response_nonempty(response) ==
    IF response.type # "dict"
    THEN Raise("TypeError", "Otvet API ne sootvetstvuet tipu 'dict'.")
    ELSE IF ~HasKey(response, "homeworks")
    THEN Raise("KeyError", "\"Otvet API ne soderzhit klyucha 'homeworks'\"")
    ELSE IF ~HasKey(response, "current_date")
    THEN Raise("KeyError", "\"Otvet API ne soderzhit klyucha 'current_date'\"")
    ELSE IF response.fields.homeworks.type # "list"
            \/ response.fields.homeworks.items = <<>>
    THEN Raise("TypeError",
               "Dannye klyucha 'homeworks' ne sootvetstvuet tipu 'list'.")
    ELSE Return(response.fields.homeworks.items)

\* a check that does not ask for current_date
check_response_undated(response) ==
    IF response.type # "dict"
    THEN Raise("TypeError", "Otvet API ne sootvetstvuet tipu 'dict'.")
    ELSE IF ~HasKey(response, "homeworks")
    THEN Raise("KeyError", "\"Otvet API ne soderzhit klyucha 'homeworks'\"")
    ELSE IF response.fields.homeworks.type # "list"
    THEN Raise("TypeError",
               "Dannye klyucha 'homeworks' ne sootvetstvuet tipu 'list'.")
    ELSE Return(response.fields.homeworks.items)

check_response(response) ==
    IF response.type # "dict"
    THEN Raise("TypeError", "Otvet API ne sootvetstvuet tipu 'dict'.")
    ELSE IF ~HasKey(response, "homeworks")
    \* str() of a KeyError is the repr of its argument
    THEN Raise("KeyError", "\"Otvet API ne soderzhit klyucha 'homeworks'\"")
    ELSE IF ~HasKey(response, "current_date")
    THEN Raise("KeyError", "\"Otvet API ne soderzhit klyucha 'current_date'\"")
    ELSE IF response.fields.homeworks.type # "list"
    THEN Raise("TypeError",
               "Dannye klyucha 'homeworks' ne sootvetstvuet tipu 'list'.")
    ELSE Return(response.fields.homeworks.items)

(***************************************************************************)
(* parse_status, homework.py:95-108.                                       *)
(***************************************************************************)
\* dict.get(key) rendered in an f-string: the value, or None
GetText(homework, key) ==
    IF HasKey(homework, key) THEN homework.fields[key] ELSE "None"

parse_status(homework) ==
    IF ~HasKey(homework, "homework_name")
    THEN Raise("KeyError",
               "\"Klyuch 'homework_name' otsutstvuet v 'homework'\"")
    \* homework.get("status") is None when the key is absent
    ELSE IF ~HasKey(homework, "status")
            \/ homework.fields.status \notin DOMAIN HOMEWORK_VERDICTS
    THEN IF HasKey(homework, "status")
         THEN Raise("KeyError", "\"Neizvestnyy status: '"
                                \o homework.fields.status \o "'\"")
         \* line 101 evaluates homework['status'] while building the text
         ELSE Raise("KeyError", "'status'")
    ELSE Return("Izmenilsya status proverki raboty \""
                \o GetText(homework, "homework_name") \o "\".\nSprint \""
                \o GetText(homework, "lesson_name") \o "\".\n"
                \o HOMEWORK_VERDICTS[homework.fields.status])


(***************************************************************************)
(* The body of the `while True` loop of main, homework.py:133-152.         *)
(* st holds the locals timestamp, previous_message and                     *)
(* previous_error_message at the start of the cycle.                       *)
(***************************************************************************)
\* a subscript that is one second early
Subscript_early(response, key) ==
    IF response.type # "dict"
    THEN Raise("TypeError", "list indices must be integers or slices, not str")
    ELSE IF ~HasKey(response, key)
    THEN Raise("KeyError", "'" \o key \o "'")
    ELSE IF response.fields[key].type = "int"
    THEN Return(JInt(response.fields[key].val - 1))
    ELSE Return(response.fields[key])

\* response["current_date"], line 136
Subscript(response, key) ==
    IF response.type # "dict"
    THEN Raise("TypeError", "list indices must be integers or slices, not str")
    ELSE IF ~HasKey(response, key)
    THEN Raise("KeyError", "'" \o key \o "'")
    ELSE Return(response.fields[key])

\* homeworks[-1]
LastItem(homeworks) == homeworks[Len(homeworks)]

\* homeworks[0], line 140
FirstItem(homeworks) == homeworks[1]

\* lines 141-143 without the comparison
NotifyStatus_always(previous_message, message, delivered) ==
    LET sent == send_message(message, delivered)
    IN  IF sent.raised
        THEN [raised |-> TRUE, text |-> sent.text, calls |-> sent.calls,
              previous_message |-> previous_message]
        ELSE [raised |-> FALSE, text |-> "", calls |-> sent.calls,
              previous_message |-> message]

\* lines 141-143 with a memory of what Telegram accepted
NotifyStatus_if_delivered(previous_message, message, delivered) ==
    IF message # previous_message
    THEN LET sent == send_message(message, delivered)
         IN  IF sent.raised
             THEN [raised |-> TRUE, text |-> sent.text, calls |-> sent.calls,
                   previous_message |-> previous_message]
             ELSE [raised |-> FALSE, text |-> "", calls |-> sent.calls,
                   previous_message |->
                       IF delivered THEN message ELSE previous_message]
    ELSE [raised |-> FALSE, text |-> "", calls |-> <<>>,
          previous_message |-> previous_message]

\* lines 141-143
NotifyStatus(previous_message, message, delivered) ==
    IF message # previous_message
    THEN LET sent == send_message(message, delivered)
         IN  IF sent.raised
             THEN [raised |-> TRUE, text |-> sent.text, calls |-> sent.calls,
                   previous_message |-> previous_message]
             ELSE [raised |-> FALSE, text |-> "", calls |-> sent.calls,
                   previous_message |-> message]
    ELSE [raised |-> FALSE, text |-> "", calls |-> <<>>,
          previous_message |-> previous_message]

\* a failed fetch that starts over from the epoch
Failed_epoch(stage, error, timestamp, calls) ==
    [raised |-> TRUE, stage |-> stage, text |-> error.text,
     timestamp |-> IF stage = "fetch" THEN JInt(0) ELSE timestamp,
     calls |-> calls, message |-> ""]
\* how the try block (lines 133-146) ends: with an exception raised at
\* `stage`, or normally; the locals it has assigned by then
Failed(stage, error, timestamp, calls) ==
    [raised |-> TRUE, stage |-> stage, text |-> error.text,
     timestamp |-> timestamp, calls |-> calls, message |-> ""]

Done(timestamp, calls, message) ==
    [raised |-> FALSE, stage |-> "", text |-> "",
     timestamp |-> timestamp, calls |-> calls, message |-> message]

TryBody(st, net, delivered) ==
    LET answer == get_api_answer(st.timestamp, net)
    IN  IF answer.raised
        THEN Failed("fetch", answer, st.timestamp, <<>>)
              @@ [previous_message |-> st.previous_message]
        ELSE
    LET response == answer.value
        current_date == Subscript(response, "current_date")
    IN  IF current_date.raised
        THEN Failed("cursor", current_date, st.timestamp, <<>>)
              @@ [previous_message |-> st.previous_message]
        ELSE
    LET timestamp == current_date.value
        homeworks == check_response(response)
    IN  IF homeworks.raised
        THEN Failed("validate", homeworks, timestamp, <<>>)
              @@ [previous_message |-> st.previous_message]
        ELSE IF Len(homeworks.value) = 0
        \* lines 144-146: nothing but a debug log
        THEN Done(timestamp, <<>>, "")
              @@ [previous_message |-> st.previous_message]
        ELSE
    LET message == parse_status(FirstItem(homeworks.value))
    IN  IF message.raised
        THEN Failed("interpret", message, timestamp, <<>>)
              @@ [previous_message |-> st.previous_message]
        ELSE
    LET notified == NotifyStatus(st.previous_message, message.value, delivered)
    IN  IF notified.raised
        THEN Failed("notify", notified, timestamp, notified.calls)
              @@ [previous_message |-> notified.previous_message]
        ELSE Done(timestamp, notified.calls, message.value)
              @@ [previous_message |-> notified.previous_message]

\* line 148
ErrorMessage(text) == "Sboy v rabote programmy: " \o text

\* lines 147-152 without the comparison
ExceptBody_always(previous_error_message, text, delivered) ==
    LET message == ErrorMessage(text)
        sent == send_message(message, delivered)
    IN  [crashed |-> sent.raised, calls |-> sent.calls, message |-> message,
         previous_error_message |->
             IF sent.raised THEN previous_error_message ELSE message]

\* a handler that remembers the exception's text, not the message sent
ExceptBody_raw(previous_error_message, text, delivered) ==
    LET message == ErrorMessage(text)
    IN  IF previous_error_message # message
        THEN LET sent == send_message(message, delivered)
             IN  [crashed |-> sent.raised, calls |-> sent.calls,
                  message |-> message,
                  previous_error_message |->
                      IF sent.raised THEN previous_error_message ELSE text]
        ELSE [crashed |-> FALSE, calls |-> <<>>, message |-> message,
              previous_error_message |-> previous_error_message]

\* lines 147-152; an exception of send_message would leave main
ExceptBody(previous_error_message, text, delivered) ==
    LET message == ErrorMessage(text)
    IN  IF previous_error_message # message
        THEN LET sent == send_message(message, delivered)
             IN  [crashed |-> sent.raised, calls |-> sent.calls,
                  message |-> message,
                  previous_error_message |->
                      IF sent.raised THEN previous_error_message ELSE message]
        ELSE [crashed |-> FALSE, calls |-> <<>>, message |-> message,
              previous_error_message |-> previous_error_message]

\* a loop that forgets the last error once a cycle succeeds
LoopBody_forgetful(st, net, delivered) ==
    LET try == TryBody(st, net, delivered)
    IN  IF try.raised
        THEN LET except == ExceptBody(st.previous_error_message, try.text,
                                      delivered)
             IN  [timestamp |-> try.timestamp,
                  previous_message |-> try.previous_message,
                  previous_error_message |-> except.previous_error_message,
                  calls |-> try.calls \o except.calls,
                  path |-> "failure", stage |-> try.stage,
                  text |-> except.message, crashed |-> except.crashed]
        ELSE [timestamp |-> try.timestamp,
              previous_message |-> try.previous_message,
              previous_error_message |-> "",
              calls |-> try.calls,
              path |-> "success", stage |-> "", text |-> try.message,
              crashed |-> FALSE]

\* a loop that moves the cursor only when it has notified
LoopBody_lazy(st, net, delivered) ==
    LET try == TryBody(st, net, delivered)
    IN  IF try.raised
        THEN LET except == ExceptBody(st.previous_error_message, try.text,
                                      delivered)
             IN  [timestamp |-> try.timestamp,
                  previous_message |-> try.previous_message,
                  previous_error_message |-> except.previous_error_message,
                  calls |-> try.calls \o except.calls,
                  path |-> "failure", stage |-> try.stage,
                  text |-> except.message, crashed |-> except.crashed]
        ELSE [timestamp |-> IF try.calls = <<>> THEN st.timestamp
                           ELSE try.timestamp,
              previous_message |-> try.previous_message,
              previous_error_message |-> st.previous_error_message,
              calls |-> try.calls,
              path |-> "success", stage |-> "", text |-> try.message,
              crashed |-> FALSE]

\* a loop that forgets the last status message once a cycle fails
LoopBody_amnesiac(st, net, delivered) ==
    LET try == TryBody(st, net, delivered)
    IN  IF try.raised
        THEN LET except == ExceptBody(st.previous_error_message, try.text,
                                      delivered)
             IN  [timestamp |-> try.timestamp,
                  previous_message |-> "",
                  previous_error_message |-> except.previous_error_message,
                  calls |-> try.calls \o except.calls,
                  path |-> "failure", stage |-> try.stage,
                  text |-> except.message, crashed |-> except.crashed]
        ELSE [timestamp |-> try.timestamp,
              previous_message |-> try.previous_message,
              previous_error_message |-> st.previous_error_message,
              calls |-> try.calls,
              path |-> "success", stage |-> "", text |-> try.message,
              crashed |-> FALSE]

\* lines 133-152: the try statement and its handler
LoopBody(st, net, delivered) ==
    LET try == TryBody(st, net, delivered)
    IN  IF try.raised
        THEN LET except == ExceptBody(st.previous_error_message, try.text,
                                      delivered)
             IN  [timestamp |-> try.timestamp,
                  previous_message |-> try.previous_message,
                  previous_error_message |-> except.previous_error_message,
                  calls |-> try.calls \o except.calls,
                  path |-> "failure", stage |-> try.stage,
                  text |-> except.message, crashed |-> except.crashed]
        ELSE [timestamp |-> try.timestamp,
              previous_message |-> try.previous_message,
              previous_error_message |-> st.previous_error_message,
              calls |-> try.calls,
              path |-> "success", stage |-> "", text |-> try.message,
              crashed |-> FALSE]

(***************************************************************************)
(* What the environment can do: the clock, the remote API, Telegram.       *)
(***************************************************************************)
Absent == [type |-> "absent"]

\* a dict with the keys whose value is not Absent
MakeDict(pairs) ==
    LET keys == {k \in DOMAIN pairs : pairs[k] # Absent}
    IN  JDict([k \in keys |-> pairs[k]])

\* a homework with the keys whose text is not ""
MakeHomework(homework_name, status, lesson_name) ==
    LET pairs == [homework_name |-> homework_name, status |-> status,
                  lesson_name |-> lesson_name]
        keys == {k \in DOMAIN pairs : pairs[k] # ""}
    IN  JDict([k \in keys |-> pairs[k]])

Homeworks ==
    { MakeHomework("hw1", "approved", "Sprint 1"),
      MakeHomework("hw1", "rejected", ""),
      MakeHomework("hw1", "unknown_value", ""),
      MakeHomework("hw1", "", ""),
      MakeHomework("", "approved", "") }

\* what follows the first item of a list: well-formed or malformed items
LaterHomeworks ==
    { MakeHomework("hw2", "reviewing", "Sprint 2"),
      MakeHomework("", "rejected", "") }

HomeworkLists ==
    {<<>>} \cup
    { <<first>> \o later :
        first \in Homeworks,
        later \in UNION {[1..n -> LaterHomeworks] : n \in 0..(MaxItems - 1)} }

Dates == 1..MaxDate

ResponseBodies ==
    {JList(<<>>)} \cup
    { MakeDict([homeworks |-> hw, current_date |-> cd]) :
        hw \in {Absent, JStr("no homeworks")}
               \cup {JList(items) : items \in HomeworkLists},
        cd \in {Absent, JStr("2024-01-01")} \cup {JInt(d) : d \in Dates} }

NetOutcomes ==
    {[kind |-> "transport", cause |-> "Read timed out."]}
    \cup {[kind |-> "http", status_code |-> code] : code \in {404, 503}}
    \cup {[kind |-> "http", status_code |-> 200,
           body |-> [parses |-> FALSE, ctor_ok |-> ok,
                     cause |-> "Expecting value"]] : ok \in BOOLEAN}
    \cup {[kind |-> "http", status_code |-> 200,
           body |-> [parses |-> TRUE, value |-> v]] : v \in ResponseBodies}

(***************************************************************************)
(* State.                                                                  *)
(***************************************************************************)
VARIABLES
    PRACTICUM_TOKEN, TELEGRAM_TOKEN, TELEGRAM_CHAT_ID, \* homework.py:18-20
    pc,                      \* where main is
    timestamp,               \* local of main, line 129
    previous_error_message,  \* local of main, line 130
    previous_message,        \* local of main, line 131
    calls,                   \* calls of bot.send_message made by the last step
    cycle,                   \* what the poll cycle just completed saw and did
    last_path,               \* how the most recent cycle ended
    last_failure,            \* text of the most recent failed cycle
    run,                     \* current run of cycles with the same message
    max_from_date,           \* largest from_date any request carried
    server_monotone,         \* no response reported a date before its request
    call                     \* a call of check_response on its own

vars == <<PRACTICUM_TOKEN, TELEGRAM_TOKEN, TELEGRAM_CHAT_ID, pc, timestamp,
          previous_error_message, previous_message, calls, cycle,
          last_path, last_failure, run, max_from_date, server_monotone,
          call>>

env == <<PRACTICUM_TOKEN, TELEGRAM_TOKEN, TELEGRAM_CHAT_ID>>
locals == <<timestamp, previous_error_message, previous_message>>
history == <<last_path, last_failure, run, max_from_date, server_monotone>>

\* a local that is not bound yet
Unbound == "<unbound>"

\* main runs, nothing calls check_response on its own
NoCall == [arg |-> Absent, ret |-> Absent]

NoCycle ==
    [path |-> "none", after |-> "none", stage |-> "", text |-> "",
     answer |-> "none", first |-> Absent,
     fetched |-> FALSE, valid |-> FALSE, items |-> 0, current_date |-> Absent,
     cursor_read |-> FALSE]

Init ==
    /\ PRACTICUM_TOKEN \in {"", "practicum-token"}
    /\ TELEGRAM_TOKEN \in {"", "telegram-token"}
    /\ TELEGRAM_CHAT_ID \in {"", "chat-id"}
    /\ pc = "starting"
    /\ timestamp = Absent
    /\ previous_error_message = Unbound
    /\ previous_message = Unbound
    /\ calls = <<>>
    /\ cycle = NoCycle
    /\ last_path = "none"
    /\ last_failure = ""
    /\ run = [text |-> "", sends |-> 0, received |-> FALSE]
    /\ max_from_date = 0
    /\ server_monotone = TRUE
    /\ call = NoCall

(***************************************************************************)
(* What a poll cycle is observed to do, for the properties below.          *)
(***************************************************************************)
\* the body get_api_answer hands to main, if any
Fetched(net) ==
    net.kind = "http" /\ net.status_code = 200 /\ net.body.parses

\* the response is a mapping with `homeworks` a list and `current_date`
\* an integer
ValidResponse(net) ==
    /\ Fetched(net)
    /\ net.body.value.type = "dict"
    /\ HasKey(net.body.value, "homeworks")
    /\ HasKey(net.body.value, "current_date")
    /\ net.body.value.fields.homeworks.type = "list"
    /\ net.body.value.fields.current_date.type = "int"

\* the `current_date` the response carries, if any
Reported(net) ==
    IF Fetched(net) /\ net.body.value.type = "dict"
       /\ HasKey(net.body.value, "current_date")
    THEN net.body.value.fields.current_date
    ELSE Absent

\* what the network answered: no answer, a status code other than OK, an
\* OK answer that is not JSON, an OK answer that is
Answer(net) ==
    IF net.kind = "transport" THEN "transport"
    ELSE IF net.status_code # 200 THEN "not_ok"
    ELSE IF ~net.body.parses THEN "not_json"
    ELSE "json"

\* the first homework of a response that is a mapping with `current_date`
\* and a non-empty list `homeworks`
First(net) ==
    IF /\ Fetched(net)
       /\ net.body.value.type = "dict"
       /\ HasKey(net.body.value, "homeworks")
       /\ HasKey(net.body.value, "current_date")
       /\ net.body.value.fields.homeworks.type = "list"
       /\ net.body.value.fields.homeworks.items # <<>>
    THEN net.body.value.fields.homeworks.items[1]
    ELSE Absent

Observe(net, result) ==
    [path |-> result.path, after |-> last_path,
     stage |-> result.stage, text |-> result.text,
     answer |-> Answer(net), first |-> First(net),
     fetched |-> Fetched(net),
     valid |-> ValidResponse(net),
     items |-> IF ValidResponse(net)
               THEN Len(net.body.value.fields.homeworks.items) ELSE 0,
     current_date |-> Reported(net),
     cursor_read |-> result.path = "success"
                     \/ result.stage \in {"validate", "interpret", "notify"}]

\* how many of the calls carry the text
Count(sent, text) == Cardinality({i \in DOMAIN sent : sent[i].text = text})

NextRun(result) ==
    IF result.path = "success" /\ result.text # ""
    THEN [text |-> result.text,
          sends |-> Count(result.calls, result.text)
                    + IF run.text = result.text THEN run.sends ELSE 0,
          \* Telegram has accepted the text during the run
          received |-> \/ run.text = result.text /\ run.received
                       \/ \E i \in DOMAIN result.calls :
                             /\ result.calls[i].text = result.text
                             /\ result.calls[i].ok]
    ELSE [text |-> "", sends |-> 0, received |-> FALSE]

(***************************************************************************)
(* main, homework.py:111-153.                                              *)
(***************************************************************************)
Announcement ==
    "Proveryayu status domashney raboty kazhdye " \o ToString(RETRY_PERIOD)
    \o " sekund"

\* lines 120-124: a variable is missing, exit()
Halt ==
    /\ pc = "starting"
    /\ check_tokens(PRACTICUM_TOKEN, TELEGRAM_TOKEN, TELEGRAM_CHAT_ID).raised
    /\ pc' = "halted"
    /\ UNCHANGED <<env, locals, calls, cycle, history, call>>

\* a start that takes the announcement for the last message sent
Start_remembering ==
    /\ pc = "starting"
    /\ ~check_tokens(PRACTICUM_TOKEN, TELEGRAM_TOKEN, TELEGRAM_CHAT_ID).raised
    /\ \E delivered \in BOOLEAN, now \in Dates :
          LET sent == send_message(Announcement, delivered)
          IN  /\ calls' = sent.calls
              /\ pc' = IF sent.raised THEN "crashed" ELSE "polling"
              /\ timestamp' = JInt(now)
    /\ previous_error_message' = ""
    /\ previous_message' = Announcement
    /\ UNCHANGED <<env, cycle, history, call>>

\* lines 120-131: the announcement and the locals of the loop
Start ==
    /\ pc = "starting"
    /\ ~check_tokens(PRACTICUM_TOKEN, TELEGRAM_TOKEN, TELEGRAM_CHAT_ID).raised
    /\ \E delivered \in BOOLEAN, now \in Dates :
          LET sent == send_message(Announcement, delivered)
          IN  /\ calls' = sent.calls
              /\ pc' = IF sent.raised THEN "crashed" ELSE "polling"
              /\ timestamp' = JInt(now)
    /\ previous_error_message' = ""
    /\ previous_message' = ""
    /\ UNCHANGED <<env, cycle, history, call>>

\* lines 133-152: one pass of the try statement
Poll ==
    /\ pc = "polling"
    /\ \E net \in NetOutcomes, delivered \in BOOLEAN :
          LET result == LoopBody([timestamp |-> timestamp,
                                  previous_message |-> previous_message,
                                  previous_error_message |->
                                      previous_error_message],
                                 net, delivered)
          IN  /\ timestamp' = result.timestamp
              /\ previous_message' = result.previous_message
              /\ previous_error_message' = result.previous_error_message
              /\ calls' = result.calls
              /\ pc' = IF result.crashed THEN "crashed" ELSE "sleeping"
              /\ cycle' = Observe(net, result)
              /\ last_path' = result.path
              /\ last_failure' = IF result.path = "failure"
                                 THEN result.text ELSE last_failure
              /\ run' = NextRun(result)
              /\ server_monotone' =
                    /\ server_monotone
                    /\ \/ Reported(net) = Absent
                       \/ /\ Reported(net).type = "int"
                          /\ timestamp.type = "int"
                          /\ Reported(net).val >= timestamp.val
    /\ max_from_date' = IF timestamp.type = "int"
                           /\ timestamp.val > max_from_date
                        THEN timestamp.val ELSE max_from_date
    /\ UNCHANGED <<env, call>>

\* line 153: time.sleep(RETRY_PERIOD), then the next pass
Sleep ==
    /\ pc = "sleeping"
    /\ pc' = "polling"
    /\ calls' = <<>>
    /\ cycle' = NoCycle
    /\ UNCHANGED <<env, locals, history, call>>

Next == Halt \/ Start \/ Poll \/ Sleep

Spec == Init /\ [][Next]_vars

\* main is the only thread and always takes its next step: a pass of the
\* try statement that has begun is completed, a sleep that has begun ends.
\* (Both steps are enabled wherever main is at them, so this is
\* WF_vars(Poll) /\ WF_vars(Sleep) stated on the position of main.)
FairSpec ==
    /\ Spec
    /\ WF_pc(pc = "polling" /\ pc' = "sleeping")
    /\ WF_pc(pc = "sleeping" /\ pc' = "polling")

(***************************************************************************)
(* check_response called on its own, on any body the API can return.       *)
(***************************************************************************)
CallInit ==
    /\ PRACTICUM_TOKEN = "practicum-token"
    /\ TELEGRAM_TOKEN = "telegram-token"
    /\ TELEGRAM_CHAT_ID = "chat-id"
    /\ pc = "calling"
    /\ timestamp = Absent
    /\ previous_error_message = Unbound
    /\ previous_message = Unbound
    /\ calls = <<>>
    /\ cycle = NoCycle
    /\ last_path = "none"
    /\ last_failure = ""
    /\ run = [text |-> "", sends |-> 0, received |-> FALSE]
    /\ max_from_date = 0
    /\ server_monotone = TRUE
    /\ call \in {[arg |-> raw, ret |-> Absent] : raw \in ResponseBodies}

CheckResponse ==
    /\ pc = "calling"
    /\ call' = [arg |-> call.arg, ret |-> check_response(call.arg)]
    /\ pc' = "returned"
    /\ UNCHANGED <<env, locals, calls, cycle, history>>

CallSpec == CallInit /\ [][CheckResponse]_vars

(***************************************************************************)
(* Properties.                                                             *)
(***************************************************************************)
\* the texts of a sequence of calls of the sink
Texts(sent) == [i \in DOMAIN sent |-> sent[i].text]

\* the step is a poll cycle: cycle' is what it saw and did
PollStep == pc = "polling" /\ pc' # "polling"

InLoop == pc \in {"polling", "sleeping"}

\* C1: in a run of consecutive cycles that all interpret the first item of
\* a valid response to the same message text, the sink is invoked with that
\* text at most once.
C1_StatusSentOncePerRun == run.sends <= 1

\* a cycle that repeats the message of the run and is suppressed, the
\* message having been sent earlier in the run
C1_Witness ==
    /\ pc = "sleeping"
    /\ cycle.path = "success" /\ cycle.after = "success"
    /\ cycle.text # "" /\ cycle.text = run.text
    /\ calls = <<>>
    /\ run.sends = 1

\* C2: of two consecutive failing cycles, the second invokes the sink
\* exactly once with its failure text if that text differs from the text of
\* the first, and not at all if the texts are equal.
C2_FailureSentOncePerChange ==
    [][(PollStep /\ last_path = "failure" /\ cycle'.path = "failure")
          => Texts(calls') = IF cycle'.text # last_failure
                             THEN <<cycle'.text>> ELSE <<>>]_vars

\* a second HTTP 503 in a row, not notified
C2_Witness ==
    /\ pc = "sleeping"
    /\ cycle.path = "failure" /\ cycle.after = "failure"
    /\ cycle.text = ErrorMessage("Endpoint ne dostupen, HTTPStatus: 503")
    /\ calls = <<>>

\* C3: a successful cycle leaves previous_error_message alone, and a
\* failing cycle whose text is the text of the most recent failing cycle,
\* however many successful cycles lie in between, invokes the sink not at
\* all.
C3_RecoveryKeepsErrorMemory ==
    [][/\ (PollStep /\ cycle'.path = "success")
            => previous_error_message' = previous_error_message
       /\ (PollStep /\ cycle'.path = "failure"
                    /\ cycle'.text = last_failure)
            => calls' = <<>>]_vars

\* the failure of before the recovery comes back and is not notified
C3_Witness ==
    /\ pc = "sleeping"
    /\ cycle.path = "failure" /\ cycle.after = "success"
    /\ cycle.text = last_failure
    /\ calls = <<>>

\* C4: a cycle that ends in the failure path leaves the cursor as it was
\* at the start of the cycle.
C4_FailureKeepsCursor ==
    [][(PollStep /\ cycle'.path = "failure") => timestamp' = timestamp]_vars

\* C5: a cycle whose response is valid and has an empty homeworks list
\* invokes no sink, changes neither memory and sets the cursor to the
\* current_date of the response.
C5_EmptyListIsSilent ==
    [][(PollStep /\ cycle'.valid /\ cycle'.items = 0)
          => /\ calls' = <<>>
             /\ previous_message' = previous_message
             /\ previous_error_message' = previous_error_message
             /\ timestamp' = cycle'.current_date]_vars

\* an empty list has moved the cursor
C5_Witness ==
    /\ pc = "sleeping"
    /\ cycle.valid /\ cycle.items = 0
    /\ cycle.path = "success"
    /\ calls = <<>>
    /\ timestamp = JInt(MaxDate)
    /\ max_from_date < MaxDate

\* C6: with one of the three variables empty, main never fetches from the
\* API and never invokes the sink, and never enters the loop.
C6_MissingVariableHalts ==
    ("" \in {PRACTICUM_TOKEN, TELEGRAM_TOKEN, TELEGRAM_CHAT_ID})
        => /\ pc \in {"starting", "halted"}
           /\ calls = <<>>
           /\ cycle.path = "none"

\* halted with only the last of the three variables empty
C6_Witness ==
    /\ pc = "halted"
    /\ PRACTICUM_TOKEN # "" /\ TELEGRAM_TOKEN # ""
    /\ TELEGRAM_CHAT_ID = ""

\* C7: once in the loop main stays in it: it halts only from startup, no
\* exception leaves the loop, the loop always has a next step, every cycle
\* reaches the sleep and every sleep is followed by the next cycle.
C7_LoopNeverStops ==
    /\ [][pc' = "halted" => pc = "starting"]_vars
    /\ [](pc # "crashed")
    /\ [](InLoop => ENABLED <<Next>>_vars)
    /\ (pc = "polling") ~> (pc = "sleeping")
    /\ (pc = "sleeping") ~> (pc = "polling")

\* a failed cycle whose error notification was not delivered is asleep
C7_Witness ==
    /\ pc = "sleeping"
    /\ cycle.path = "failure"
    /\ calls # <<>> /\ ~calls[1].ok

\* a is an integer cursor smaller than the integer b
Smaller(a, b) == a.type = "int" /\ a.val < b

\* C8 as stated: whatever the server answers, the cursor of a later fetch
\* is not smaller than the cursor of an earlier fetch.
C8_CursorNeverRewound == InLoop => ~Smaller(timestamp, max_from_date)

\* C8 amended: as long as every response reported an integer current_date
\* not smaller than the from_date of its request, the cursor is an integer
\* not smaller than the cursor of any earlier fetch.
C8_CursorFollowsServer ==
    (InLoop /\ server_monotone)
        => timestamp.type = "int" /\ timestamp.val >= max_from_date

\* the cursor has advanced beyond every cursor used so far
C8_Witness ==
    /\ pc = "sleeping"
    /\ server_monotone
    /\ cycle.cursor_read
    /\ max_from_date > 0
    /\ timestamp.val > max_from_date

\* C9: the cursor is assigned from current_date only if the response is a
\* mapping with `homeworks` a list and `current_date` an integer.
C9_RejectedBeforeUse == cycle.cursor_read => cycle.valid

\* the response of net with its homeworks list cut down to the first item
OnlyFirst(net) ==
    LET response == net.body.value
    IN  [net EXCEPT !.body.value =
            MakeDict([homeworks |->
                          JList(<<response.fields.homeworks.items[1]>>),
                      current_date |-> response.fields.current_date])]

\* what the operator and the loop see of a cycle
Outcome(result) ==
    [calls |-> result.calls, path |-> result.path, text |-> result.text,
     previous_message |-> result.previous_message,
     previous_error_message |-> result.previous_error_message]

\* C10: a cycle with a valid response of one or more homeworks has the
\* outcome of the same cycle with the list cut down to its first item.
C10_OnlyFirstItemCounts ==
    pc = "polling" =>
        \A net \in NetOutcomes, delivered \in BOOLEAN :
            LET st == [timestamp |-> timestamp,
                       previous_message |-> previous_message,
                       previous_error_message |-> previous_error_message]
            IN  (ValidResponse(net)
                 /\ Len(net.body.value.fields.homeworks.items) >= 1)
                   => Outcome(LoopBody(st, net, delivered))
                        = Outcome(LoopBody(st, OnlyFirst(net), delivered))

\* a list of two or more homeworks was polled and its first item notified
C10_Witness ==
    /\ pc = "sleeping"
    /\ cycle.valid /\ cycle.items >= 2
    /\ cycle.path = "success"
    /\ calls # <<>>

\* C11: with the three variables present main calls the sink once, with
\* the announcement, before the first fetch, and enters the first cycle
\* with both memories empty, so that the first message and the first
\* failure text of the first cycle are sent.
C11_AnnouncedBeforeFirstFetch ==
    /\ []((pc = "polling" /\ last_path = "none")
            => /\ Texts(calls) = <<Announcement>>
               /\ cycle = NoCycle
               /\ previous_message = ""
               /\ previous_error_message = "")
    /\ [][(PollStep /\ last_path = "none" /\ cycle'.text # "")
            => Texts(calls') = <<cycle'.text>>]_vars

\* the first cycle has interpreted a homework and sent the message
C11_Witness ==
    /\ pc = "sleeping"
    /\ cycle.after = "none"
    /\ cycle.path = "success" /\ cycle.text # ""
    /\ Texts(calls) = <<cycle.text>>

\* what the claim takes for an invalid response
Invalid(raw) ==
    \/ raw.type # "dict"
    \/ ~HasKey(raw, "homeworks")
    \/ ~HasKey(raw, "current_date")
    \/ raw.fields.homeworks.type # "list"

\* C12 as stated: check_response fails exactly on a response that is no
\* mapping, lacks `homeworks` or `current_date`, or whose `homeworks` is no
\* list, and otherwise returns the response, unchanged.
C12_ReturnsResponse ==
    pc = "returned"
        => /\ call.ret.raised <=> Invalid(call.arg)
           /\ ~call.ret.raised => call.ret.value = call.arg

\* C12 amended: check_response fails exactly on a response that is no
\* mapping, lacks `homeworks` or `current_date`, or whose `homeworks` is no
\* list, and otherwise returns the list under `homeworks`.
C12_ReturnsHomeworks ==
    pc = "returned"
        => /\ call.ret.raised <=> Invalid(call.arg)
           /\ ~call.ret.raised
                => call.ret.value = call.arg.fields.homeworks.items

\* a response with homeworks has passed the check
C12_Witness ==
    /\ pc = "returned"
    /\ ~call.ret.raised
    /\ Len(call.ret.value) >= 1

\* the text of line 101 for a status
UnknownStatus(status) == "\"Neizvestnyy status: '" \o status \o "'\""

\* the statuses a text of line 101 can name; None is what
\* homework.get("status") gives for a homework without the key
StatusNames ==
    {"None"} \cup {h.fields.status : h \in {x \in Homeworks : HasKey(x, "status")}}

\* the first homework has a name, and no status or one that is no verdict
NamedWithoutVerdict(homework) ==
    /\ homework # Absent
    /\ HasKey(homework, "homework_name")
    /\ \/ ~HasKey(homework, "status")
       \/ homework.fields.status \notin DOMAIN HOMEWORK_VERDICTS

\* C13 as stated: a cycle whose first homework has a name but no status, or
\* a status that is no verdict, takes the failure path with a text that says
\* the status is unknown, other than the text for a missing name, and the
\* text is the error message the operator was last sent.
C13_UnknownStatusReported ==
    (pc = "sleeping" /\ NamedWithoutVerdict(cycle.first))
        => /\ cycle.path = "failure"
           /\ cycle.stage = "interpret"
           /\ \E status \in StatusNames :
                 cycle.text = ErrorMessage(UnknownStatus(status))
           /\ cycle.text
                # ErrorMessage("\"Klyuch 'homework_name' otsutstvuet v 'homework'\"")
           /\ previous_error_message = cycle.text
           /\ Len(calls) <= 1
           /\ \A i \in DOMAIN calls : calls[i].text = cycle.text

\* C14 as stated: an answer with status OK whose body is not JSON ends the
\* cycle at the fetch with the text of a JSON-decode failure, which is not
\* a text of an unavailable endpoint.
C14_NotJsonIsDecodeFailure ==
    (pc = "sleeping" /\ cycle.answer = "not_json")
        => /\ cycle.path = "failure"
           /\ cycle.stage = "fetch"
           /\ cycle.text
                = ErrorMessage("Oshibka preobrazovaniya v JSON: Expecting value")

\* C15: after a cycle whose fetch succeeded and whose response passed the
\* check, the cursor is the response's current_date, whether the first
\* homework was notified, suppressed as a repeat, failed to interpret, or
\* the list was empty, and the sleep hands that cursor to the next fetch.
C15_CursorIsCurrentDate ==
    /\ []((pc = "sleeping" /\ (cycle.valid \/ cycle.first # Absent))
            => timestamp = cycle.current_date)
    /\ [][(pc = "sleeping" /\ pc' = "polling") => timestamp' = timestamp]_vars

\* a repeat was suppressed and the cursor still moved past every earlier one
C15_Witness ==
    /\ pc = "sleeping"
    /\ cycle.valid
    /\ cycle.path = "success" /\ cycle.text # "" /\ calls = <<>>
    /\ timestamp.val > max_from_date

\* C16: a cycle whose fetch fails (no answer, a status code other than OK,
\* or an OK answer that is not JSON) takes the failure path at the fetch and
\* leaves the cursor as it was, and so does the sleep after it: the next
\* fetch carries the same cursor, however many fetches fail in a row.
C16_FailedFetchKeepsCursor ==
    /\ [][(PollStep /\ cycle'.answer \in {"transport", "not_ok", "not_json"})
            => /\ cycle'.path = "failure"
               /\ cycle'.stage = "fetch"
               /\ timestamp' = timestamp]_vars
    /\ [][(pc = "sleeping" /\ cycle.stage = "fetch") => timestamp' = timestamp]_vars

\* a fetch has failed after a failed cycle, with the text reported before
C16_Witness ==
    /\ pc = "sleeping"
    /\ cycle.after = "failure"
    /\ cycle.stage = "fetch"
    /\ cycle.answer = "not_ok"
    /\ calls = <<>>
    /\ timestamp.type = "int" /\ timestamp.val = max_from_date

\* C17: a cycle on the failure path leaves previous_message as it was, a
\* cycle on the success path leaves previous_error_message as it was, and
\* a message that equals previous_message is not sent again, also when the
\* cycles before it failed.
C17_MemoriesIndependent ==
    /\ [][(PollStep /\ cycle'.path = "failure")
            => previous_message' = previous_message]_vars
    /\ [][(PollStep /\ cycle'.path = "success")
            => previous_error_message' = previous_error_message]_vars
    /\ [][(PollStep /\ last_path = "failure" /\ cycle'.path = "success"
            /\ cycle'.text # "" /\ cycle'.text = previous_message)
            => calls' = <<>> /\ previous_message' = previous_message]_vars

\* the message sent before the failures is suppressed after them
C17_Witness ==
    /\ pc = "sleeping"
    /\ cycle.after = "failure"
    /\ cycle.path = "success" /\ cycle.text # ""
    /\ previous_message = cycle.text
    /\ previous_error_message # ""
    /\ calls = <<>>

\* C18: in the loop previous_message changes only in a cycle that sends a
\* status message other than the old previous_message, and then equals the
\* text sent; previous_error_message changes only in a cycle that sends an
\* error message other than the old previous_error_message, and then
\* equals the text sent; the sleep changes neither.
C18_MemoryIsLastSent ==
    /\ [][(PollStep /\ previous_message' # previous_message)
            => /\ cycle'.path = "success"
               /\ cycle'.text # previous_message
               /\ Texts(calls') = <<cycle'.text>>
               /\ previous_message' = cycle'.text]_vars
    /\ [][(PollStep /\ previous_error_message' # previous_error_message)
            => /\ cycle'.path = "failure"
               /\ cycle'.text # previous_error_message
               /\ Texts(calls') = <<cycle'.text>>
               /\ previous_error_message' = cycle'.text]_vars
    /\ [][pc = "sleeping"
            => /\ previous_message' = previous_message
               /\ previous_error_message' = previous_error_message]_vars

\* a new error message has replaced the one of the cycle before
C18_Witness ==
    /\ pc = "sleeping"
    /\ cycle.after = "failure"
    /\ cycle.path = "failure"
    /\ Texts(calls) = <<cycle.text>>
    /\ previous_error_message = cycle.text
    /\ previous_message # ""

\* C19: no step calls bot.send_message more than once, and a cycle whose
\* first homework interprets to a status message ends on the success path
\* with no call for any other text, whether or not Telegram took the message.
C19_OneSendPerCycle ==
    /\ Len(calls) <= 1
    /\ (pc = "sleeping" /\ cycle.first # Absent
          /\ ~parse_status(cycle.first).raised)
            => /\ cycle.path = "success"
               /\ \A i \in DOMAIN calls :
                     calls[i].text = parse_status(cycle.first).value

\* Telegram has refused the status message and the cycle has succeeded
C19_Witness ==
    /\ pc = "sleeping"
    /\ cycle.path = "success"
    /\ calls = <<[text |-> cycle.text, ok |-> FALSE]>>

\* C20: a cycle whose message Telegram refuses still sets the memory of its
\* path to the text; while the same status message is interpreted again
\* nothing is sent and the operator has still not received it; and a
\* failure with the text of the failure before it sends nothing.
C20_RefusedIsRemembered ==
    /\ [][(PollStep /\ calls' # <<>> /\ ~calls'[1].ok)
            => /\ cycle'.path = "success"
                    => previous_message' = calls'[1].text
               /\ cycle'.path = "failure"
                    => previous_error_message' = calls'[1].text]_vars
    /\ [][(PollStep /\ run.text # "" /\ ~run.received
            /\ cycle'.path = "success" /\ cycle'.text = run.text)
            => calls' = <<>> /\ ~run'.received]_vars
    /\ [][(PollStep /\ last_path = "failure" /\ cycle'.path = "failure"
            /\ cycle'.text = last_failure)
            => calls' = <<>>]_vars

\* the one send of the run was refused and the repeat is suppressed
C20_Witness ==
    /\ pc = "sleeping"
    /\ cycle.after = "success"
    /\ cycle.path = "success" /\ cycle.text # ""
    /\ run.text = cycle.text /\ run.sends = 1 /\ ~run.received
    /\ calls = <<>>

====
